---- MODULE Spec2Model ----
(***************************************************************************)
(* Model of aten/src/ATen/native/Cross.cpp: the axis resolver              *)
(* (_default_cross_dim), the four entry points cross, cross_out,           *)
(* linalg_cross and linalg_cross_out, and the dispatch table behind        *)
(* cross_stub.                                                             *)
(*                                                                         *)
(* Shapes are sequences of extents.  The code indexes dimensions from 0,   *)
(* TLA+ sequences from 1: dimension d of the code is position d + 1 here.  *)
(***************************************************************************)
EXTENDS Integers, Sequences, FiniteSets, TLC

\* ------------------------------------------------------------------------
\* Bounds of the model
\* ------------------------------------------------------------------------
MaxRank == 2
MaxExtent == 4
MaxRuns == 2

Max(a, b) == IF a >= b THEN a ELSE b

Ranks == 1..MaxRank
Extents == 1..MaxExtent
Shapes == UNION {[1..n -> Extents] : n \in Ranks}
\* explicit axis values: every value in range for some rank, and one
\* value out of range on each side
Dims == (0 - (MaxRank + 1))..MaxRank

Devices == {"cpu", "cuda"}
Kernels == {"cross_kernel_cpu", "cross_kernel_cuda"}
NoKernel == "none"
Threads == {"t1", "t2"}

\* c10::optional<int64_t>
None == [has |-> FALSE, val |-> 0]
Some(v) == [has |-> TRUE, val |-> v]
OptDims == {None} \cup {Some(d) : d \in Dims}

\* ------------------------------------------------------------------------
\* Tensors: sizes, device tag, whether the tensor is a view made by expand,
\* and a tag for what the storage holds ("prior": what the caller put
\* there, "uninit": storage after a resize, "cross": the kernel's result).
\* ------------------------------------------------------------------------
Tensor(name, sizes, device) ==
    [id |-> name, sizes |-> sizes, device |-> device, view |-> FALSE, data |-> "prior"]

RECURSIVE numel(_)
numel(sizes) == IF sizes = <<>> THEN 1 ELSE Head(sizes) * numel(Tail(sizes))

\* Tensor::size(dim), dim already in range
size(t, dim) == t.sizes[dim + 1]

\* variant: the fresh output is allocated with one element
empty1(input) == Tensor("fresh", <<1>>, input.device)

\* at::empty({0}, input.options())
empty0(input) == Tensor("fresh", <<0>>, input.device)

\* ------------------------------------------------------------------------
\* Library helpers used by Cross.cpp
\* ------------------------------------------------------------------------
\* extent of shape s at position i of a right-aligned shape of rank n
Aligned(s, n, i) == IF i - (n - Len(s)) >= 1 THEN s[i - (n - Len(s))] ELSE 1

Compatible(a, b) ==
    LET n == Max(Len(a), Len(b))
    IN \A i \in 1..n :
          \/ Aligned(a, n, i) = Aligned(b, n, i)
          \/ Aligned(a, n, i) = 1
          \/ Aligned(b, n, i) = 1

infer_size(a, b) ==
    LET n == Max(Len(a), Len(b))
    IN IF Compatible(a, b)
       THEN [ok |-> TRUE, sizes |-> [i \in 1..n |-> Max(Aligned(a, n, i), Aligned(b, n, i))]]
       ELSE [ok |-> FALSE, sizes |-> <<>>]

maybe_wrap_dim(dim, rank) ==
    IF dim < 0 - rank \/ dim >= rank
    THEN [ok |-> FALSE, dim |-> 0]
    ELSE [ok |-> TRUE, dim |-> IF dim < 0 THEN dim + rank ELSE dim]

expand(t, sizes) == [t EXCEPT !.sizes = sizes, !.view = TRUE]

\* at::native::resize_output: the tensor after the call and the number of
\* warnings emitted
resize_output(out, sizes) ==
    IF out.sizes = sizes
    THEN [out |-> out, warnings |-> 0]
    ELSE [out |-> [out EXCEPT !.sizes = sizes, !.data = "uninit"],
          warnings |-> IF numel(out.sizes) # 0 THEN 1 ELSE 0]

\* ------------------------------------------------------------------------
\* Dispatch table (cross_stub)
\* ------------------------------------------------------------------------
EmptyTable == [d \in Devices |-> NoKernel]

\* variant: a second registration replaces the entry
register_overwrite(tbl, tag, kernel) ==
    [status |-> "ok", table |-> [tbl EXCEPT ![tag] = kernel]]

register(tbl, tag, kernel) ==
    IF tbl[tag] # NoKernel
    THEN [status |-> "DuplicateRegistration", table |-> tbl]
    ELSE [status |-> "ok", table |-> [tbl EXCEPT ![tag] = kernel]]

lookup(tbl, tag) ==
    IF tbl[tag] = NoKernel
    THEN [status |-> "UnsupportedDevice", kernel |-> NoKernel]
    ELSE [status |-> "ok", kernel |-> tbl[tag]]

\* ------------------------------------------------------------------------
\* Cross.cpp
\* ------------------------------------------------------------------------
\* variant: the scan keeps the last match instead of returning the first
RECURSIVE last3(_, _)
last3(sizes, i) ==
    IF i >= Len(sizes) THEN [ok |-> FALSE, dim |-> 0]
    ELSE LET rest == last3(sizes, i + 1)
         IN IF rest.ok THEN rest
            ELSE IF sizes[i + 1] = 3 THEN [ok |-> TRUE, dim |-> i]
            ELSE rest

\* the loop of _default_cross_dim, from index i on
RECURSIVE first3(_, _)
first3(sizes, i) ==
    IF i >= Len(sizes) THEN [ok |-> FALSE, dim |-> 0]
    ELSE IF sizes[i + 1] = 3 THEN [ok |-> TRUE, dim |-> i]
    ELSE first3(sizes, i + 1)

_default_cross_dim(dimension, sizes) ==
    IF dimension.has THEN [ok |-> TRUE, dim |-> dimension.val]
    ELSE first3(sizes, 0)

\* variant: the operand is expanded unconditionally
broadcasted_always(t, out_size) == expand(t, out_size)

\* lines 50-58: an operand is expanded only if its sizes differ from out_size
broadcasted(t, out_size) ==
    IF ~(t.sizes = out_size) THEN expand(t, out_size) ELSE t

NoTensor == [id |-> "none", sizes |-> <<>>, device |-> "cpu", view |-> FALSE, data |-> "prior"]

\* variant: the axis is wrapped and its extent checked on input before
\* the shapes are broadcast
cross_checks_wrap_first(input, other, dimension) ==
    LET sz == infer_size(input.sizes, other.sizes)
        ib == broadcasted(input, sz.sizes)
        ob == broadcasted(other, sz.sizes)
        w  == maybe_wrap_dim(dimension, Len(input.sizes))
        rec(st, wr, a, b) ==
            [status |-> st, out_size |-> sz.sizes, wrapped |-> wr, a |-> a, b |-> b]
    IN IF ~w.ok
       THEN rec("AxisOutOfRange", w, NoTensor, NoTensor)
       ELSE IF size(input, w.dim) # 3
       THEN rec("AxisExtentMismatch", w, NoTensor, NoTensor)
       ELSE IF ~sz.ok
       THEN rec("IncompatibleShapes", w, NoTensor, NoTensor)
       ELSE rec("ok", w, ib, ob)

\* variant: the TORCH_CHECK on the extent of the axis is missing
cross_checks_no_extent_check(input, other, dimension) ==
    LET sz == infer_size(input.sizes, other.sizes)
        ib == broadcasted(input, sz.sizes)
        ob == broadcasted(other, sz.sizes)
        w  == maybe_wrap_dim(dimension, Len(input.sizes))
        rec(st, wr, a, b) ==
            [status |-> st, out_size |-> sz.sizes, wrapped |-> wr, a |-> a, b |-> b]
    IN IF ~sz.ok
       THEN rec("IncompatibleShapes", [ok |-> FALSE, dim |-> 0], NoTensor, NoTensor)
       ELSE IF ~w.ok
       THEN rec("AxisOutOfRange", w, ib, ob)
       ELSE rec("ok", w, ib, ob)

\* lines 43-62: everything linalg_cross_out does before it touches out.
\* wrapped is the result of maybe_wrap_dim (ok = FALSE: not reached or
\* out of range).
cross_checks(input, other, dimension) ==
    LET sz == infer_size(input.sizes, other.sizes)
        ib == broadcasted(input, sz.sizes)
        ob == broadcasted(other, sz.sizes)
        w  == maybe_wrap_dim(dimension, Len(input.sizes))
        rec(st, wr, a, b) ==
            [status |-> st, out_size |-> sz.sizes, wrapped |-> wr, a |-> a, b |-> b]
    IN IF ~sz.ok
       THEN rec("IncompatibleShapes", [ok |-> FALSE, dim |-> 0], NoTensor, NoTensor)
       ELSE IF ~w.ok
       THEN rec("AxisOutOfRange", w, ib, ob)
       ELSE IF size(ib, w.dim) # 3
       THEN rec("AxisExtentMismatch", w, ib, ob)
       ELSE rec("ok", w, ib, ob)

\* What a call did: its status, the out tensor after it, the warnings
\* emitted, the kernel invocations made, the result of maybe_wrap_dim and
\* the dimension linalg_cross_out was called with.
Result(status, out, warnings, kernelCalls, wrapped, dimension) ==
    [status |-> status, out |-> out, warnings |-> warnings,
     kernelCalls |-> kernelCalls, wrapped |-> wrapped,
     resolved |-> [ok |-> TRUE, dim |-> dimension]]

\* cross_stub(device1, out, input_broadcasted, other_broadcasted, dim)
KernelCall(kernel, device, out, a, b, dim) ==
    [kernel |-> kernel, device |-> device, out |-> out, a |-> a, b |-> b, dim |-> dim]

\* variant: out is not resized before the kernel is called
linalg_cross_out_no_resize(input, other, dimension, out, tbl) ==
    LET c == cross_checks(input, other, dimension)
        k == lookup(tbl, input.device)
    IN IF c.status # "ok"
       THEN Result(c.status, out, 0, <<>>, c.wrapped, dimension)
       ELSE IF k.status # "ok"
       THEN Result(k.status, out, 0, <<>>, c.wrapped, dimension)
       ELSE Result("ok", [out EXCEPT !.data = "cross"], 0,
                   <<KernelCall(k.kernel, input.device, out, c.a, c.b, c.wrapped.dim)>>,
                   c.wrapped, dimension)

\* variant: out is resized before the extent of the axis is checked
linalg_cross_out_resize_first(input, other, dimension, out, tbl) ==
    LET c == cross_checks(input, other, dimension)
        r == resize_output(out, c.out_size)
        k == lookup(tbl, input.device)
    IN IF c.status = "AxisExtentMismatch"
       THEN Result(c.status, r.out, r.warnings, <<>>, c.wrapped, dimension)
       ELSE IF c.status # "ok"
       THEN Result(c.status, out, 0, <<>>, c.wrapped, dimension)
       ELSE IF k.status # "ok"
       THEN Result(k.status, r.out, r.warnings, <<>>, c.wrapped, dimension)
       ELSE Result("ok", [r.out EXCEPT !.data = "cross"], r.warnings,
                   <<KernelCall(k.kernel, input.device, r.out, c.a, c.b, c.wrapped.dim)>>,
                   c.wrapped, dimension)

\* lines 42-70
linalg_cross_out(input, other, dimension, out, tbl) ==
    LET c == cross_checks(input, other, dimension)
        r == resize_output(out, c.out_size)
        k == lookup(tbl, input.device)
    IN IF c.status # "ok"
       THEN Result(c.status, out, 0, <<>>, c.wrapped, dimension)
       ELSE IF k.status # "ok"
       THEN Result(k.status, r.out, r.warnings, <<>>, c.wrapped, dimension)
       ELSE Result("ok", [r.out EXCEPT !.data = "cross"], r.warnings,
                   <<KernelCall(k.kernel, input.device, r.out, c.a, c.b, c.wrapped.dim)>>,
                   c.wrapped, dimension)

\* lines 36-40
linalg_cross(input, other, dimension, tbl) ==
    linalg_cross_out(input, other, dimension, empty0(input), tbl)

\* line 23: TORCH_CHECK(false, "no dimension of size 3 in input")
NoSuitableAxis(out) ==
    [status |-> "NoSuitableAxis", out |-> out, warnings |-> 0,
     kernelCalls |-> <<>>, wrapped |-> [ok |-> FALSE, dim |-> 0],
     resolved |-> [ok |-> FALSE, dim |-> 0]]

\* lines 31-34
cross_out(input, other, dimension, out, tbl) ==
    LET dim == _default_cross_dim(dimension, input.sizes)
    IN IF ~dim.ok THEN NoSuitableAxis(out)
       ELSE linalg_cross_out(input, other, dim.dim, out, tbl)

\* lines 26-29 (on NoSuitableAxis no output was allocated; the out field
\* then holds the tensor that would have been)
cross(input, other, dimension, tbl) ==
    LET dim == _default_cross_dim(dimension, input.sizes)
    IN IF ~dim.ok THEN NoSuitableAxis(empty0(input))
       ELSE linalg_cross(input, other, dim.dim, tbl)

\* ------------------------------------------------------------------------
\* State
\* ------------------------------------------------------------------------
VARIABLES
    input,     \* the caller's first operand
    other,     \* the caller's second operand
    out,       \* the caller's output tensor (cross_out, linalg_cross_out)
    table,     \* the dispatch table of cross_stub
    call,      \* the last entry-point call: its arguments and what it did
    lastReg,   \* the last register call on the table and its outcome
    tpc,       \* per thread: position inside invoke
    tkernel,   \* per thread: the kernel invoke looked up
    tstatus,   \* per thread: outcome of the last invoke
    runs       \* number of kernel runs started through invoke

vars == <<input, other, out, table, call, lastReg, tpc, tkernel, tstatus, runs>>
callVars == <<input, other, out, call>>
tableVars == <<lastReg, tpc, tkernel, tstatus, runs>>

NoCall ==
    [entry |-> "none", dimension |-> None, resolved |-> [ok |-> FALSE, dim |-> 0],
     outBefore |-> NoTensor, status |-> "none", ret |-> NoTensor, warnings |-> 0,
     kernelCalls |-> <<>>, wrapped |-> [ok |-> FALSE, dim |-> 0]]

NoReg == [tag |-> "cpu", kernel |-> NoKernel, status |-> "none",
          before |-> EmptyTable, after |-> EmptyTable]

Record(entry, dimension, before, r) ==
    [entry |-> entry, dimension |-> dimension, resolved |-> r.resolved,
     outBefore |-> before, status |-> r.status, ret |-> r.out,
     warnings |-> r.warnings, kernelCalls |-> r.kernelCalls, wrapped |-> r.wrapped]

\* tables the startup registrations can leave: the host backend has
\* registered its kernel, the accelerator backend has registered its own
\* or has not been loaded
KernelOf(d) == IF d = "cpu" THEN "cross_kernel_cpu" ELSE "cross_kernel_cuda"
StartupTables ==
    {[d \in Devices |-> IF d \in S THEN KernelOf(d) ELSE NoKernel] :
        S \in {{"cpu"}, {"cpu", "cuda"}}}

\* output tensors the caller may hold before the first call: empty, or
\* populated with one 3-vector
OutShapes == {<<0>>, <<3>>}

TableIdle ==
    /\ lastReg = NoReg
    /\ tpc = [t \in Threads |-> "idle"]
    /\ tkernel = [t \in Threads |-> NoKernel]
    /\ tstatus = [t \in Threads |-> "none"]
    /\ runs = 0

Init ==
    /\ \E s \in Shapes, d \in Devices : input = Tensor("input", s, d)
    /\ \E s \in Shapes : other = Tensor("other", s, input.device)
    /\ \E s \in OutShapes : out = Tensor("out", s, input.device)
    /\ table \in StartupTables
    /\ call = NoCall
    /\ TableIdle

\* ------------------------------------------------------------------------
\* The four entry points
\* ------------------------------------------------------------------------
Cross(dimension) ==
    /\ call' = Record("cross", dimension, empty0(input),
                      cross(input, other, dimension, table))
    /\ UNCHANGED <<input, other, out, table>>
    /\ UNCHANGED tableVars

CrossOut(dimension) ==
    LET r == cross_out(input, other, dimension, out, table)
    IN /\ call' = Record("cross_out", dimension, out, r)
       /\ out' = r.out
       /\ UNCHANGED <<input, other, table>>
       /\ UNCHANGED tableVars

LinalgCross(dimension) ==
    /\ call' = Record("linalg_cross", Some(dimension), empty0(input),
                      linalg_cross(input, other, dimension, table))
    /\ UNCHANGED <<input, other, out, table>>
    /\ UNCHANGED tableVars

LinalgCrossOut(dimension) ==
    LET r == linalg_cross_out(input, other, dimension, out, table)
    IN /\ call' = Record("linalg_cross_out", Some(dimension), out, r)
       /\ out' = r.out
       /\ UNCHANGED <<input, other, table>>
       /\ UNCHANGED tableVars

Next ==
    \/ \E d \in OptDims : Cross(d)
    \/ \E d \in OptDims : CrossOut(d)
    \/ \E d \in Dims : LinalgCross(d)
    \/ \E d \in Dims : LinalgCrossOut(d)

Spec == Init /\ [][Next]_vars

\* ------------------------------------------------------------------------
\* The dispatch table on its own: registrations and concurrent invokes
\* ------------------------------------------------------------------------
InitTable ==
    /\ input = Tensor("input", <<3>>, "cpu")
    /\ other = Tensor("other", <<3>>, "cpu")
    /\ out = Tensor("out", <<0>>, "cpu")
    /\ call = NoCall
    /\ table = EmptyTable
    /\ TableIdle

Register(tag, kernel) ==
    LET r == register(table, tag, kernel)
    IN /\ table' = r.table
       /\ lastReg' = [tag |-> tag, kernel |-> kernel, status |-> r.status,
                      before |-> table, after |-> r.table]
       /\ UNCHANGED <<tpc, tkernel, tstatus, runs>>
       /\ UNCHANGED callVars

\* invoke, first half: look the kernel up by tag
InvokeLookup(t, tag) ==
    LET l == lookup(table, tag)
    IN /\ tpc[t] = "idle"
       /\ tkernel' = [tkernel EXCEPT ![t] = l.kernel]
       /\ IF l.status = "ok"
          THEN /\ tpc' = [tpc EXCEPT ![t] = "call"]
               /\ tstatus' = [tstatus EXCEPT ![t] = "pending"]
          ELSE /\ tpc' = tpc
               /\ tstatus' = [tstatus EXCEPT ![t] = l.status]
       /\ UNCHANGED <<table, lastReg, runs>>
       /\ UNCHANGED callVars

\* invoke, second half: call the kernel that was looked up
InvokeCall(t) ==
    /\ tpc[t] = "call"
    /\ runs < MaxRuns
    /\ runs' = runs + 1
    /\ tpc' = [tpc EXCEPT ![t] = "idle"]
    /\ tstatus' = [tstatus EXCEPT ![t] = "ok"]
    /\ UNCHANGED <<table, lastReg, tkernel>>
    /\ UNCHANGED callVars

NextTable ==
    \/ \E tag \in Devices, k \in Kernels : Register(tag, k)
    \/ \E t \in Threads, tag \in Devices : InvokeLookup(t, tag)
    \/ \E t \in Threads : InvokeCall(t)

SpecTable == InitTable /\ [][NextTable]_vars

\* ------------------------------------------------------------------------
\* Properties
\* ------------------------------------------------------------------------
\* the broadcast rank and shape of the two operands, as the specification
\* of broadcasting defines them
R == Max(Len(input.sizes), Len(other.sizes))
BShape == [i \in 1..R |-> Max(Aligned(input.sizes, R, i), Aligned(other.sizes, R, i))]
Compat == Compatible(input.sizes, other.sizes)
WrapR(d) == IF d < 0 THEN d + R ELSE d
InRangeR(d) == d >= 0 - R /\ d < R

Explicit == call.entry \in {"linalg_cross", "linalg_cross_out"}
Implicit == call.entry \in {"cross", "cross_out"}
WithOut == call.entry \in {"cross_out", "linalg_cross_out"}
Fresh == call.entry \in {"cross", "linalg_cross"}
Has3(sizes) == \E i \in 1..Len(sizes) : sizes[i] = 3

\* C1: in the axis-explicit entry points the axis is wrapped against the
\* rank R of the broadcast shape: for broadcast-compatible operands and an
\* axis in [-R, R), the axis checked and passed on is axis + R if axis < 0
\* and axis otherwise.
C1_AxisWrappedAgainstBroadcastRank ==
    (Explicit /\ Compat /\ InRangeR(call.dimension.val))
        => /\ call.wrapped.ok
           /\ call.wrapped.dim = WrapR(call.dimension.val)

\* C2: after every successful call of any entry point the shape of the
\* returned (out) tensor is the broadcast shape of the two input shapes,
\* whatever shape out had before.
C2_OutHasBroadcastShape ==
    (call.status = "ok")
        => /\ call.ret.sizes = BShape
           /\ Len(call.ret.sizes) = Max(Len(input.sizes), Len(other.sizes))
           /\ WithOut => out = call.ret

C2_Witness ==
    /\ call.entry = "cross_out"
    /\ call.status = "ok"
    /\ numel(call.outBefore.sizes) > 0
    /\ call.outBefore.sizes # BShape
    /\ Len(input.sizes) # Len(other.sizes)

\* C3: without an explicit axis _default_cross_dim returns the least index
\* whose extent is 3 and fails with NoSuitableAxis exactly if there is
\* none; with an explicit axis it returns it unmodified for every shape.
C3_DefaultCrossDim ==
    Implicit =>
        IF call.dimension.has
        THEN /\ call.resolved = [ok |-> TRUE, dim |-> call.dimension.val]
             /\ call.status # "NoSuitableAxis"
        ELSE /\ call.resolved.ok <=> Has3(input.sizes)
             /\ (call.status = "NoSuitableAxis") <=> ~Has3(input.sizes)
             /\ call.resolved.ok =>
                   /\ call.resolved.dim \in 0..(Len(input.sizes) - 1)
                   /\ input.sizes[call.resolved.dim + 1] = 3
                   /\ \A j \in 1..call.resolved.dim : input.sizes[j] # 3

C3_Witness ==
    /\ call.entry = "cross"
    /\ ~call.dimension.has
    /\ input.sizes = <<3, 3>>
    /\ call.resolved = [ok |-> TRUE, dim |-> 0]

\* C4: for operands that are not broadcast-compatible the axis-explicit
\* entry points fail with IncompatibleShapes for every axis argument.
C4_IncompatibleShapesFirst ==
    (Explicit /\ ~Compat) => call.status = "IncompatibleShapes"

C4_Witness ==
    /\ call.entry = "linalg_cross_out"
    /\ input.sizes = <<2, 3>>
    /\ other.sizes = <<4, 3>>
    /\ call.dimension.val = 0
    /\ call.status = "IncompatibleShapes"

\* C5: for broadcast-compatible operands and an axis in range for the
\* broadcast rank, if the extent of the broadcast shape at the wrapped axis
\* is not 3 the axis-explicit entry points fail with AxisExtentMismatch and
\* with no other error.
C5_ExtentMismatchOnBroadcastShape ==
    (/\ Explicit
     /\ Compat
     /\ InRangeR(call.dimension.val)
     /\ BShape[WrapR(call.dimension.val) + 1] # 3)
        => call.status = "AxisExtentMismatch"

\* C6: a successful call emits the discard warning once if out had one or
\* more elements and a shape other than the broadcast shape, and not at all
\* otherwise; cross and linalg_cross pass a fresh empty output and never
\* warn.
C6_DiscardWarning ==
    (call.status = "ok")
        => /\ call.warnings =
                 IF numel(call.outBefore.sizes) >= 1 /\ call.outBefore.sizes # BShape
                 THEN 1 ELSE 0
           /\ Fresh => call.warnings = 0

C6_Witness ==
    /\ call.entry = "cross_out"
    /\ call.status = "ok"
    /\ call.outBefore.sizes = <<3>>
    /\ call.warnings = 1

\* C7: the table holds at most one kernel per device tag and no entry is
\* ever removed or replaced: a register for a registered tag fails with
\* DuplicateRegistration and leaves the table unchanged, invoke never
\* modifies the table, and invoke for a tag without entry fails with
\* UnsupportedDevice without calling a kernel.
TableTypeOK == table \in [Devices -> Kernels \cup {NoKernel}]

RegisterOK ==
    lastReg.status # "none" =>
        IF lastReg.before[lastReg.tag] # NoKernel
        THEN lastReg.status = "DuplicateRegistration" /\ lastReg.after = lastReg.before
        ELSE /\ lastReg.status = "ok"
             /\ lastReg.after = [lastReg.before EXCEPT ![lastReg.tag] = lastReg.kernel]

TableStep ==
    /\ \A d \in Devices : table[d] # NoKernel => table'[d] = table[d]
    /\ (tpc' # tpc \/ tstatus' # tstatus \/ tkernel' # tkernel \/ runs' # runs)
          => table' = table
    /\ \A t \in Threads :
          (tstatus'[t] # tstatus[t] /\ tstatus'[t] = "UnsupportedDevice")
              => /\ runs' = runs
                 /\ tpc'[t] = "idle"
                 /\ tkernel'[t] = NoKernel
    /\ \A t \in Threads :
          (tpc[t] = "idle" /\ tpc'[t] = "call") => tkernel'[t] \in Kernels

C7_TableWriteOnce == [](TableTypeOK /\ RegisterOK) /\ [][TableStep]_vars

C7_Witness ==
    /\ lastReg.status = "DuplicateRegistration"
    /\ \E t \in Threads : tstatus[t] = "UnsupportedDevice"
    /\ \E t \in Threads : tpc[t] = "call"
    /\ runs > 0

\* C8: whenever the kernel is invoked both operands and out have the
\* broadcast shape, the axis is in range for it and its extent there is 3;
\* the kernel is invoked exactly once per successful call, keyed by the
\* device tag of input.
C8_KernelPrecondition ==
    /\ Len(call.kernelCalls) = (IF call.status = "ok" THEN 1 ELSE 0)
    /\ \A n \in 1..Len(call.kernelCalls) :
          LET k == call.kernelCalls[n]
          IN /\ Compat
             /\ k.a.sizes = BShape
             /\ k.b.sizes = BShape
             /\ k.out.sizes = BShape
             /\ k.dim >= 0
             /\ k.dim < Len(BShape)
             /\ BShape[k.dim + 1] = 3
             /\ k.device = input.device
             /\ k.kernel = table[input.device]
             /\ k.kernel # NoKernel

C8_Witness ==
    /\ call.status = "ok"
    /\ Len(call.kernelCalls) = 1
    /\ input.device = "cuda"
    /\ Len(input.sizes) < Len(other.sizes)

\* C9: an operand whose shape equals the broadcast shape reaches the
\* kernel as the identical tensor, an operand is expanded only if its shape
\* differs, and with equal input shapes neither is expanded.
C9_ExpandOnlyWhenNeeded ==
    \A n \in 1..Len(call.kernelCalls) :
        LET k == call.kernelCalls[n]
        IN /\ input.sizes = BShape => k.a = input
           /\ other.sizes = BShape => k.b = other
           /\ input.sizes # BShape => k.a = expand(input, BShape)
           /\ other.sizes # BShape => k.b = expand(other, BShape)
           /\ input.sizes = other.sizes => (k.a = input /\ k.b = other)

C9_Witness ==
    /\ Len(call.kernelCalls) = 1
    /\ input.sizes = BShape
    /\ other.sizes # BShape
    /\ call.kernelCalls[1].a = input
    /\ call.kernelCalls[1].b.view

\* C10: a call of cross_out or linalg_cross_out that fails with
\* NoSuitableAxis, IncompatibleShapes, an out-of-range axis or
\* AxisExtentMismatch leaves out with the shape and contents it had, emits
\* no warning and invokes no kernel.
CheckErrors == {"NoSuitableAxis", "IncompatibleShapes", "AxisOutOfRange", "AxisExtentMismatch"}

C10_FailureLeavesOut ==
    (WithOut /\ call.status \in CheckErrors)
        => /\ out = call.outBefore
           /\ call.ret = call.outBefore
           /\ call.warnings = 0
           /\ call.kernelCalls = <<>>

C10_Witness ==
    /\ call.entry = "linalg_cross_out"
    /\ call.status = "AxisExtentMismatch"
    /\ numel(call.outBefore.sizes) > 0
    /\ call.outBefore.sizes # BShape

====
